---------------------------- MODULE Spec2Model ----------------------------
(***************************************************************************)
(* A model of src/model/model.py: the attention layer's construction, the  *)
(* forward pass of the decoder stack with its key/value cache, and the     *)
(* batched generation loop of MiniMindLM.generate.                         *)
(*                                                                         *)
(* Tensors of activations are modelled symbolically: the value a layer     *)
(* computes at one position is the term recording the query it used and    *)
(* the (key, value) pairs that received a non-zero attention probability.  *)
(* Two positions get equal logits for every choice of weights exactly when *)
(* their terms are equal.  Dropout is taken with probability 0 (inference).*)
(***************************************************************************)
EXTENDS Integers, Sequences, FiniteSets, TLC

(***************************************************************************)
(* Bounds of the model.                                                    *)
(***************************************************************************)
n_layers == 2
MaxModelLen == 3
MaxFwdLen == 4
MaxCausalLen == 3
MaxDim == 4
MaxHeads == 3
MaxLogit == 3
TopPDen == 6
MaxPrompt == 3
MaxNew == 2
MaxAttnLen == 4
MaxSharedPrompt == 1
MaxSharedWidth == 3

(***************************************************************************)
(* Program constants.                                                      *)
(***************************************************************************)
pad_token_id == 0
eos_token_id == 2
Vocab == pad_token_id .. eos_token_id

\* precompute_pos_cis: one table row per position 0 .. end - 1; a row is
\* named by its position (distinct positions have distinct rotations).
RotaryEnd == 32 * 1024

\* Optional values: None, or a one-element tuple holding the value.
None == << >>
Some(x) == << x >>

Min(a, b) == IF a < b THEN a ELSE b
Max(a, b) == IF a > b THEN a ELSE b

VARIABLES
    model_max_length,   \* args.model_max_length, the side of Attention.mask
    fwd_ids,            \* tokens processed so far by a prompt pass + decode steps
    fwd_past,           \* past_key_values returned by the last forward call
    fwd_logits,         \* logits per position, as the incremental passes gave them
    fwd_err,            \* "" or the exception the last forward call raised
    fwd_calls,          \* arguments of the forward calls made so far
    causal_in,          \* two inputs given to forward, each without a cache
    causal_out,         \* None, or Some(the two results)
    cfg_args,           \* the LMConfig fields Attention.__init__ reads
    cfg_attn,           \* None, or Some(what Attention(args) gave)
    topp_in,            \* a logits row, its sort order and top_p
    topp_out,           \* None, or Some(the row after top-p filtering)
    \* --- one call of generate: its arguments ---
    input_ids,          \* the prompt, one sequence per batch row
    max_new_tokens,
    top_p,              \* << numerator, denominator >>
    rp,
    use_cache,
    \* --- its locals ---
    output,             \* the output buffer, one sequence per batch row
    active_mask,
    eos_reached,
    past_key_values,    \* None, or Some(per row, the list of per-layer entries)
    start_pos,
    cur_pos,            \* the loop variable (0-based column)
    logits_in,          \* logits after line 286 (temperature applied)
    logits_rp,          \* logits after line 291 (repetition penalty applied)
    logits,             \* logits after line 306 (top-p applied)
    pc,                 \* "loop", "sample", "done" or "error"
    passes,             \* the forward passes made so far
    \* --- one call of Attention.forward with a prior cache ---
    attn_in,            \* [ids: the tokens of the cache and the new ones, c: cache length]
    attn_out,           \* None, or Some(what the call gave)
    \* --- calls of generate sharing one model ---
    OUT,                \* self.OUT, the object every forward call fills and returns
    call_pc,            \* per call: "forward", "read_logits", "read_cache", "done", "error"
    call_ids,           \* per call: the tokens of its own output buffer so far
    call_past,          \* per call: its local past_key_values
    call_logits,        \* per call: its local logits
    call_own            \* per call: what its own latest forward pass computed

fwd_vars == << fwd_ids, fwd_past, fwd_logits, fwd_err, fwd_calls >>
causal_vars == << causal_in, causal_out >>
cfg_vars == << cfg_args, cfg_attn >>
topp_vars == << topp_in, topp_out >>
gen_args == << input_ids, max_new_tokens, top_p, rp, use_cache >>
gen_vars == << gen_args, output, active_mask, eos_reached, past_key_values,
               start_pos, cur_pos, logits_in, logits_rp, logits, pc, passes >>
attn_vars == << attn_in, attn_out >>
shared_vars == << OUT, call_pc, call_ids, call_past, call_logits, call_own >>
vars == << model_max_length, fwd_vars, causal_vars, cfg_vars, topp_vars, gen_vars,
           attn_vars, shared_vars >>

(***************************************************************************)
(* The forward pass.                                                       *)
(***************************************************************************)

\* Fault model for C4: the table is always read from row 0, ignoring start_pos.
PosCisSlice_NoStart(pos, n) == [i \in 1 .. n |-> i - 1]

\* self.pos_cis[start_pos : start_pos + n]: Python slicing clamps to the table.
PosCisSlice(pos, n) ==
    LET stop == Min(pos + n, RotaryEnd)
        len == Max(0, stop - Min(pos, RotaryEnd))
    IN [i \in 1 .. len |-> pos + i - 1]

\* Fault model for C5: a mask with no -inf entry.
MaskAt_None(i, j) == FALSE

\* triu(full(-inf), diagonal=1) at 0-based (i, j): TRUE when the entry is -inf.
MaskAt(i, j) == j > i

\* self.mask[:, :, :seq_len, :seq_len] has side m = min(seq_len, model_max_length);
\* adding it to the scores of shape (seq_len, kv_len) broadcasts each dimension.
Broadcastable(a, b) == a = b \/ a = 1 \/ b = 1

\* Whether the score of query i (1-based) against key j (1-based) is masked.
Masked(m, i, j) ==
    LET mi == IF m = 1 THEN 0 ELSE i - 1
        mj == IF m = 1 THEN 0 ELSE j - 1
    IN MaskAt(mi, mj)

\* apply_rotary_emb: every query and key at index i is multiplied by pos_cis[i].
apply_rotary_emb(x, pos_cis) ==
    [i \in 1 .. Len(x) |-> [src |-> x[i], rot |-> pos_cis[i]]]

RECURSIVE Unmasked(_, _, _, _, _)
\* The (key, value) pairs of keys j .. Len(xk) that query i is not masked from.
Unmasked(m, i, xk, xv, j) ==
    IF j > Len(xk) THEN << >>
    ELSE (IF Masked(m, i, j) THEN << >> ELSE << << xk[j], xv[j] >> >>)
         \o Unmasked(m, i, xk, xv, j + 1)

\* Attention.forward for one batch row.  x: the normalised hidden states.
AttentionForward(x, pos_cis, past_key_value, cache_out, M) ==
    LET seq_len == Len(x)
    IN IF Len(pos_cis) # seq_len
       THEN [err |-> "AssertionError", out |-> << >>, past_kv |-> None]
       ELSE
         LET xq == apply_rotary_emb(x, pos_cis)
             xk0 == apply_rotary_emb(x, pos_cis)
             xv0 == [i \in 1 .. seq_len |-> [src |-> x[i]]]
             xk == IF past_key_value # None THEN past_key_value[1][1] \o xk0 ELSE xk0
             xv == IF past_key_value # None THEN past_key_value[1][2] \o xv0 ELSE xv0
             past_kv == IF cache_out THEN Some(<< xk, xv >>) ELSE None
             m == Min(seq_len, M)
         IN IF ~(Broadcastable(m, seq_len) /\ Broadcastable(m, Len(xk)))
            THEN [err |-> "RuntimeError", out |-> << >>, past_kv |-> None]
            ELSE [err |-> "",
                  out |-> [i \in 1 .. seq_len |->
                             [q |-> xq[i], kv |-> Unmasked(m, i, xk, xv, 1)]],
                  past_kv |-> past_kv]

\* MiniMindBlock.forward: the residual adds and the feed-forward act on each
\* position alone, so the block's value at a position is the attention term
\* (which holds the position's own input as the query source).
MiniMindBlockForward(x, pos_cis, past_key_value, cache_out, M) ==
    AttentionForward(x, pos_cis, past_key_value, cache_out, M)

RECURSIVE RunLayers(_, _, _, _, _, _)
\* The loop over self.layers, from layer_idx on.
RunLayers(h, pos_cis, past_list, cache_out, M, layer_idx) ==
    IF layer_idx > n_layers THEN [err |-> "", h |-> h, past_kvs |-> << >>]
    ELSE LET r == MiniMindBlockForward(h, pos_cis, past_list[layer_idx],
                                       cache_out, M)
         IN IF r.err # "" THEN [err |-> r.err, h |-> << >>, past_kvs |-> << >>]
            ELSE LET rest == RunLayers(r.out, pos_cis, past_list, cache_out,
                                       M, layer_idx + 1)
                 IN [err |-> rest.err, h |-> rest.h,
                     past_kvs |-> << r.past_kv >> \o rest.past_kvs]

\* MiniMindLM.forward for one batch row: ids the row of input_ids, past the
\* past_key_values (None or Some(list of per-layer entries)), cache_out the
\* use_cache flag, pos the start_pos argument.
forward(ids, past, cache_out, pos, M) ==
    LET past_list == IF past = None \/ past[1] = << >>
                     THEN [l \in 1 .. n_layers |-> None]
                     ELSE past[1]
        h == [i \in 1 .. Len(ids) |-> [tok |-> ids[i]]]
        pos_cis == PosCisSlice(pos, Len(ids))
        r == RunLayers(h, pos_cis, past_list, cache_out, M, 1)
    IN [err |-> r.err, logits |-> r.h, past_key_values |-> r.past_kvs]

(***************************************************************************)
(* Construction of the attention layer.                                    *)
(***************************************************************************)

\* nn.Linear(in_features, out_features, bias=False): the weight has shape
\* (out_features, in_features); a negative size is refused, a zero one is not.
Linear(in_features, out_features) ==
    IF in_features < 0 \/ out_features < 0
    THEN [err |-> "RuntimeError", shape |-> << >>]
    ELSE [err |-> "", shape |-> << out_features, in_features >>]

AttnFailed(e) ==
    [err |-> e, n_kv_heads |-> 0, n_rep |-> 0, head_dim |-> 0,
     wq |-> << >>, wk |-> << >>, wv |-> << >>, wo |-> << >>, mask |-> 0]

\* Attention.__init__(args), for n_heads >= 0 and n_kv_heads None or >= 0.
AttentionInit(args, M) ==
    LET n_kv_heads == IF args.n_kv_heads = None THEN args.n_heads
                      ELSE args.n_kv_heads[1]
    IN IF n_kv_heads = 0 THEN AttnFailed("ZeroDivisionError")
       ELSE IF args.n_heads % n_kv_heads # 0 THEN AttnFailed("AssertionError")
       ELSE IF args.n_heads = 0 THEN AttnFailed("ZeroDivisionError")
       ELSE
         LET n_rep == args.n_heads \div n_kv_heads
             head_dim == args.dim \div args.n_heads
             wq == Linear(args.dim, args.n_heads * head_dim)
             wk == Linear(args.dim, n_kv_heads * head_dim)
             wv == Linear(args.dim, n_kv_heads * head_dim)
             wo == Linear(args.n_heads * head_dim, args.dim)
         IN IF wq.err # "" THEN AttnFailed(wq.err)
            ELSE IF wk.err # "" THEN AttnFailed(wk.err)
            ELSE IF wv.err # "" THEN AttnFailed(wv.err)
            ELSE IF wo.err # "" THEN AttnFailed(wo.err)
            ELSE [err |-> "", n_kv_heads |-> n_kv_heads, n_rep |-> n_rep,
                  head_dim |-> head_dim, wq |-> wq.shape, wk |-> wk.shape,
                  wv |-> wv.shape, wo |-> wo.shape, mask |-> M]

(***************************************************************************)
(* The logit transforms of generate.  A logits row is a function from      *)
(* Vocab to integers; NegInf stands for -float("Inf").  softmax is taken   *)
(* to base 2 (a rescaling of the logits), which keeps probabilities exact: *)
(* the probability of token v is Weight(row[v]) / TotalWeight(row).        *)
(***************************************************************************)
NegInf == -1

Weight(l) == IF l = NegInf THEN 0 ELSE 2 ^ l

RECURSIVE SumWeights(_, _, _)
\* torch.cumsum at rank k: the weights of sorted ranks 1 .. k.
SumWeights(row, order, k) ==
    IF k = 0 THEN 0 ELSE Weight(row[order[k]]) + SumWeights(row, order, k - 1)

\* torch.sort(logits, descending=True): the orders it may return for a row
\* (entries of equal value come in an order the sort does not fix).
VocabOrders ==
    {order \in [1 .. Cardinality(Vocab) -> Vocab] :
        \A a, b \in 1 .. Cardinality(Vocab) : a # b => order[a] # order[b]}

SortOrders(row) ==
    {order \in VocabOrders :
        \A a \in 1 .. Cardinality(Vocab) - 1 : row[order[a]] >= row[order[a + 1]]}

\* cumulative_probs > top_p at sorted rank k (1-based), top_p = p[1] / p[2].
CumExceeds(row, order, k, p) ==
    SumWeights(row, order, k) * p[2]
        > p[1] * SumWeights(row, order, Cardinality(Vocab))

\* Fault model for C6: the removal flags without the shift of lines 301-302.
SortedRemove_NoShift(row, order, k, p) == CumExceeds(row, order, k, p)

\* sorted_indices_to_remove after the shift by one and the reset of rank 0.
SortedRemove(row, order, k, p) ==
    IF k = 1 THEN FALSE ELSE CumExceeds(row, order, k - 1, p)

\* Fault model for C13: the removal flags applied at the sorted ranks, not
\* scattered back to the token indices (line 305 left out).
TopPFilter_NoScatter(row, order, p) ==
    IF p[1] < p[2]
    THEN [v \in Vocab |->
            IF SortedRemove(row, order, v - pad_token_id + 1, p) THEN NegInf ELSE row[v]]
    ELSE row

\* Lines 294-306 for one row: the row with the removed tokens set to -inf.
TopPFilter(row, order, p) ==
    IF p[1] < p[2]
    THEN [v \in Vocab |->
            LET k == CHOOSE r \in 1 .. Cardinality(Vocab) : order[r] = v
            IN IF SortedRemove(row, order, k, p) THEN NegInf ELSE row[v]]
    ELSE row

(***************************************************************************)
(* Incremental decoding with the forward API: a prompt pass, then          *)
(* single-token passes that hand back the cache of the previous pass.      *)
(***************************************************************************)

\* Length of the cache a pass is given (0 when there is none).
CacheLen(past) ==
    IF past = None \/ past[1] = << >> \/ past[1][1] = None
    THEN 0
    ELSE Len(past[1][1][1][1])

TokenSeqs(n) == UNION {[1 .. k -> Vocab] : k \in 1 .. n}

FwdIdle ==
    /\ fwd_ids = << >>
    /\ fwd_past = None
    /\ fwd_logits = << >>
    /\ fwd_err = ""
    /\ fwd_calls = << >>

CausalIdle ==
    /\ causal_in = << >>
    /\ causal_out = None

CfgIdle ==
    /\ cfg_args = << >>
    /\ cfg_attn = None

ToppIdle ==
    /\ topp_in = << >>
    /\ topp_out = None

AttnIdle ==
    /\ attn_in = << >>
    /\ attn_out = None

SharedIdle ==
    /\ OUT = << >>
    /\ call_pc = << >>
    /\ call_ids = << >>
    /\ call_past = << >>
    /\ call_logits = << >>
    /\ call_own = << >>

GenIdle ==
    /\ input_ids = << >>
    /\ max_new_tokens = 0
    /\ top_p = << 1, 1 >>
    /\ rp = 1
    /\ use_cache = FALSE
    /\ output = << >>
    /\ active_mask = << >>
    /\ eos_reached = << >>
    /\ past_key_values = None
    /\ start_pos = 0
    /\ cur_pos = 0
    /\ logits_in = << >>
    /\ logits_rp = << >>
    /\ logits = << >>
    /\ pc = "idle"
    /\ passes = << >>

InitFwd ==
    /\ model_max_length \in 1 .. MaxModelLen
    /\ fwd_ids = << >>
    /\ fwd_past = None
    /\ fwd_logits = << >>
    /\ fwd_err = ""
    /\ fwd_calls = << >>
    /\ CausalIdle
    /\ CfgIdle
    /\ ToppIdle
    /\ GenIdle
    /\ AttnIdle
    /\ SharedIdle

FwdApply(toks, pos) ==
    LET out == forward(toks, fwd_past, TRUE, pos, model_max_length)
    IN /\ fwd_calls' = Append(fwd_calls, [len |-> Len(toks), start_pos |-> pos,
                                           cache_len |-> CacheLen(fwd_past)])
       /\ fwd_err' = out.err
       /\ fwd_ids' = fwd_ids \o toks
       /\ fwd_past' = IF out.err = "" THEN Some(out.past_key_values) ELSE fwd_past
       /\ fwd_logits' = IF out.err = "" THEN fwd_logits \o out.logits ELSE fwd_logits
       /\ UNCHANGED << attn_vars, shared_vars, model_max_length, causal_vars, cfg_vars, topp_vars, gen_vars >>

\* The prompt pass: no prior cache, start position 0, cache requested.
FwdPromptPass ==
    /\ fwd_ids = << >>
    /\ \E toks \in TokenSeqs(MaxFwdLen) : FwdApply(toks, 0)

\* A single-token pass: prior cache supplied, start position = cache length.
FwdDecodeStep ==
    /\ fwd_ids # << >>
    /\ fwd_err = ""
    /\ Len(fwd_ids) < MaxFwdLen
    /\ \E tok \in Vocab : FwdApply(<< tok >>, CacheLen(fwd_past))

NextFwd == FwdPromptPass \/ FwdDecodeStep

SpecFwd == InitFwd /\ [][NextFwd]_vars

(***************************************************************************)
(* C4.  Incremental decoding equivalence.                                  *)
(***************************************************************************)

RECURSIVE RefTerm(_, _, _)
\* The value layer l must give at position p (1-based) of the sequence ids:
\* the query of position p, rotated with table row p - 1, over the keys and
\* values of exactly positions 1 .. p, key j rotated with table row j - 1.
RefTerm(ids, l, p) ==
    IF l = 0 THEN [tok |-> ids[p]]
    ELSE [q |-> [src |-> RefTerm(ids, l - 1, p), rot |-> p - 1],
          kv |-> [j \in 1 .. p |->
                    << [src |-> RefTerm(ids, l - 1, j), rot |-> j - 1],
                       [src |-> RefTerm(ids, l - 1, j)] >>]]

WithinExtent(n) == n <= model_max_length /\ n <= RotaryEnd

\* C4: for a token sequence within the table extent, a prompt pass followed
\* by single-token passes with the cache gives at every position the logits
\* of one pass over the whole sequence, and the value at absolute position p
\* is the query of p over the keys/values of exactly positions 0 .. p, each
\* rotated with the table row of its own absolute position.
C4_IncrementalEquivalence ==
    (fwd_ids # << >> /\ WithinExtent(Len(fwd_ids))) =>
        LET one == forward(fwd_ids, None, FALSE, 0, model_max_length)
        IN /\ fwd_err = ""
           /\ one.err = ""
           /\ fwd_logits = one.logits
           /\ Len(fwd_logits) = Len(fwd_ids)
           /\ \A p \in 1 .. Len(fwd_ids) :
                 fwd_logits[p] = RefTerm(fwd_ids, n_layers, p)

\* A prompt pass of two tokens and then a decode step, all within the extent.
C4_Witness ==
    /\ Len(fwd_calls) >= 2
    /\ fwd_calls[1].len = 2
    /\ fwd_calls[Len(fwd_calls)].len = 1
    /\ fwd_calls[Len(fwd_calls)].cache_len = Len(fwd_ids) - 1
    /\ fwd_err = ""
    /\ WithinExtent(Len(fwd_ids))

(***************************************************************************)
(* C8.  SequenceLengthExceeded.                                            *)
(***************************************************************************)

\* C8: a forward pass whose position range start_pos .. start_pos + len, or
\* whose cache-plus-new key range, goes past the rotary table or the causal
\* mask (model_max_length) fails instead of producing logits.
C8_SequenceLengthExceeded ==
    \A k \in 1 .. Len(fwd_calls) :
        LET c == fwd_calls[k]
        IN (\/ c.start_pos + c.len > RotaryEnd
            \/ c.start_pos + c.len > model_max_length
            \/ c.cache_len + c.len > model_max_length)
           => (k = Len(fwd_calls) /\ fwd_err # "")

(***************************************************************************)
(* C5.  Causality of forward: two inputs, each run without a cache.        *)
(***************************************************************************)

InitCausal ==
    /\ model_max_length \in 1 .. MaxModelLen
    /\ causal_in \in {ab \in TokenSeqs(MaxCausalLen) \X TokenSeqs(MaxCausalLen) :
                         ab[1][1] = ab[2][1]}
    /\ causal_out = None
    /\ FwdIdle
    /\ CfgIdle
    /\ ToppIdle
    /\ GenIdle
    /\ AttnIdle
    /\ SharedIdle

CausalForward ==
    /\ causal_out = None
    /\ causal_out' = Some(<< forward(causal_in[1], None, FALSE, 0, model_max_length),
                             forward(causal_in[2], None, FALSE, 0, model_max_length) >>)
    /\ UNCHANGED << attn_vars, shared_vars, model_max_length, causal_in, fwd_vars, cfg_vars, topp_vars,
                    gen_vars >>

NextCausal == CausalForward

SpecCausal == InitCausal /\ [][NextCausal]_vars

AgreeUpTo(a, b, t) ==
    /\ t <= Len(a)
    /\ t <= Len(b)
    /\ \A i \in 1 .. t : a[i] = b[i]

\* C5: for two inputs no longer than the configured maximum length that agree
\* on positions 0 .. t, forward without a cache gives the same logits at
\* position t: the logits at t do not depend on tokens after t.
C5_Causality ==
    (/\ causal_out # None
     /\ Len(causal_in[1]) <= model_max_length
     /\ Len(causal_in[2]) <= model_max_length) =>
        LET ra == causal_out[1][1]
            rb == causal_out[1][2]
        IN /\ ra.err = ""
           /\ rb.err = ""
           /\ \A t \in 1 .. MaxCausalLen :
                 AgreeUpTo(causal_in[1], causal_in[2], t)
                     => ra.logits[t] = rb.logits[t]

\* Two inputs that agree on their first two tokens and differ at the third.
C5_Witness ==
    /\ causal_out # None
    /\ Len(causal_in[1]) = 3
    /\ Len(causal_in[2]) = 3
    /\ Len(causal_in[1]) <= model_max_length
    /\ AgreeUpTo(causal_in[1], causal_in[2], 2)
    /\ causal_in[1][3] # causal_in[2][3]
    /\ causal_out[1][1].err = ""
    /\ causal_out[1][1].logits[3] # causal_out[1][2].logits[3]

(***************************************************************************)
(* C9.  Construction of the attention layer from a configuration.          *)
(***************************************************************************)

InitCfg ==
    /\ model_max_length \in 1 .. MaxModelLen
    /\ cfg_args \in [dim : -1 .. MaxDim,
                      n_heads : 0 .. MaxHeads,
                      n_kv_heads : {None} \cup {Some(k) : k \in 0 .. MaxHeads}]
    /\ cfg_attn = None
    /\ FwdIdle
    /\ CausalIdle
    /\ ToppIdle
    /\ GenIdle
    /\ AttnIdle
    /\ SharedIdle

Construct ==
    /\ cfg_attn = None
    /\ cfg_attn' = Some(AttentionInit(cfg_args, model_max_length))
    /\ UNCHANGED << attn_vars, shared_vars, model_max_length, cfg_args, fwd_vars, causal_vars, topp_vars,
                    gen_vars >>

NextCfg == Construct

SpecCfg == InitCfg /\ [][NextCfg]_vars

\* The key/value head count the configuration asks for.
KvHeadsOf(args) ==
    IF args.n_kv_heads = None THEN args.n_heads ELSE args.n_kv_heads[1]

\* The head count is an exact multiple of the key/value head count.
HeadsDivisible(args) ==
    /\ KvHeadsOf(args) > 0
    /\ args.n_heads % KvHeadsOf(args) = 0

\* The derived head dimension, model width / head count, is positive.
HeadDimPositive(args) ==
    /\ args.n_heads > 0
    /\ args.dim \div args.n_heads > 0

\* C9: constructing the attention layer fails whenever the head count is not
\* an exact multiple of the key/value head count, and whenever the derived
\* head dimension is not positive.
C9_ConfigurationError ==
    (cfg_attn # None /\ ~(HeadsDivisible(cfg_args) /\ HeadDimPositive(cfg_args)))
        => cfg_attn[1].err # ""

(***************************************************************************)
(* C6.  Top-p filtering of one logits row.                                 *)
(***************************************************************************)

InitTopP ==
    /\ model_max_length = 1
    /\ \E row \in [Vocab -> 0 .. MaxLogit] :
         \E order \in SortOrders(row) :
           \E num \in 1 .. TopPDen :
             topp_in = [row |-> row, order |-> order, top_p |-> << num, TopPDen >>]
    /\ topp_out = None
    /\ FwdIdle
    /\ CausalIdle
    /\ CfgIdle
    /\ GenIdle
    /\ AttnIdle
    /\ SharedIdle

TopPApply ==
    /\ topp_out = None
    /\ topp_out' = Some(TopPFilter(topp_in.row, topp_in.order, topp_in.top_p))
    /\ UNCHANGED << attn_vars, shared_vars, model_max_length, topp_in, fwd_vars, causal_vars, cfg_vars,
                    gen_vars >>

NextTopP == TopPApply

SpecTopP == InitTopP /\ [][NextTopP]_vars

\* C6: for any logits row and any top_p in (0, 1], after the filtering step
\* some token still has a finite logit; in particular the token the sort
\* ranks first, which has the highest logit of the row, keeps its logit.
C6_TopPNeverEmpties ==
    topp_out # None =>
        LET top == topp_in.order[1]
        IN /\ \E v \in Vocab : topp_out[1][v] # NegInf
           /\ \A v \in Vocab : topp_in.row[top] >= topp_in.row[v]
           /\ topp_out[1][top] = topp_in.row[top]

\* top_p < 1, the first-ranked token alone has probability above top_p, and
\* every other token was removed.
C6_Witness ==
    /\ topp_out # None
    /\ topp_in.top_p[1] < topp_in.top_p[2]
    /\ CumExceeds(topp_in.row, topp_in.order, 1, topp_in.top_p)
    /\ \A v \in Vocab : v # topp_in.order[1] => topp_out[1][v] = NegInf
    /\ topp_out[1][topp_in.order[1]] # NegInf

(***************************************************************************)
(* MiniMindLM.generate.                                                    *)
(***************************************************************************)
\* The batch: two rows, numbered as the code numbers them.
Rows == {0, 1}

\* The logits a forward pass may give a row, after the scaling by inv_temp
\* (a positive factor): the weights are not modelled, so every row of this
\* catalogue may come out of any pass.  Values are multiples of every rp.
LogitRows == {[v \in Vocab |-> 2 * ((v + s) % Cardinality(Vocab))] : s \in {0, 1}}

RpValues == {1, 2}
TopPValues == {<< 1, 2 >>, << 9, 10 >>, << 1, 1 >>}

\* The prompts of length len given to generate: row r holds the tokens
\* r + 1, r + 2, ... (modulo the vocabulary), so rows and columns differ.
PromptBatch(len) ==
    [r \in Rows |-> [j \in 1 .. len |-> (r + j) % Cardinality(Vocab)]]

seq_length == Len(input_ids[0])
max_seq_len == seq_length + max_new_tokens

\* Fault model for C2: the loop never sees that every row has finished.
AnyActive_Always(mask) == TRUE

\* active_mask.any()
AnyActive(mask) == \E r \in Rows : mask[r]

\* The rows with active_mask[i], in increasing order of i.
ActiveRows(mask) ==
    LET IsActive(r) == mask[r]
    IN SelectSeq([k \in 1 .. Cardinality(Rows) |-> k - 1], IsActive)

\* set(output[i, :cur].tolist())
SeenTokens(out_row, cur) == {out_row[j] : j \in 1 .. cur}

\* Lines 287-291: seen_tokens lists the seen sets of the active rows only,
\* and enumerate() numbers that list from 0; entry i scales row i of logits.
ApplyRp(lg, outp, cur, mask, penalty) ==
    IF penalty = 1 THEN lg
    ELSE LET act == ActiveRows(mask)
             seen_tokens == [k \in 1 .. Len(act) |-> SeenTokens(outp[act[k]], cur)]
         IN [i \in Rows |->
               IF i + 1 <= Len(seen_tokens)
               THEN [v \in Vocab |-> IF v \in seen_tokens[i + 1]
                                      THEN lg[i][v] \div penalty
                                      ELSE lg[i][v]]
               ELSE lg[i]]

\* Lines 270-277: the rows handed to the model and the start position.
ModelInputs(outp, cur, past) ==
    [r \in Rows |-> IF past = None THEN SubSeq(outp[r], 1, cur)
                     ELSE SubSeq(outp[r], cur, cur)]

StartPos(cur, past) == IF past = None THEN 0 ELSE cur - 1

\* self(model_inputs, ...) on the batch: each row goes through forward with
\* its own slice of the cache; shapes, hence errors, are the same in all rows.
BatchForward(inputs, past, cache_out, pos, M) ==
    LET res == [r \in Rows |->
                  forward(inputs[r],
                          IF past = None THEN None ELSE Some(past[1][r]),
                          cache_out, pos, M)]
    IN [err |-> res[0].err,
        logits |-> [r \in Rows |-> res[r].logits],
        past_key_values |-> [r \in Rows |-> res[r].past_key_values]]

\* Lines 294-306 on the batch: each row filtered under one of the orders
\* the sort may return for it.
TopPBatch(lg, p) ==
    LET outcomes == [r \in Rows |-> {TopPFilter(lg[r], o, p) : o \in SortOrders(lg[r])}]
    IN {f \in [Rows -> UNION {outcomes[r] : r \in Rows}] :
          \A r \in Rows : f[r] \in outcomes[r]}

\* Fault model for C3: the sampled tokens written one column to the left.
UpdateOutput_PrevColumn(outp, mask, cur, next_tokens) ==
    [r \in Rows |-> IF mask[r] THEN [outp[r] EXCEPT ![cur] = next_tokens[r]]
                     ELSE outp[r]]

\* Line 313: output[active_mask, cur] = next_tokens[active_mask].
UpdateOutput(outp, mask, cur, next_tokens) ==
    [r \in Rows |-> IF mask[r] THEN [outp[r] EXCEPT ![cur + 1] = next_tokens[r]]
                     ELSE outp[r]]

\* Fault model for C1: eos_reached recomputed for every row, finished or not.
UpdateEos_AllRows(reached, mask, next_tokens) ==
    [r \in Rows |-> next_tokens[r] = eos_token_id]

\* Line 316: eos_reached[active_mask] = next_tokens[active_mask] == eos_token_id.
UpdateEos(reached, mask, next_tokens) ==
    [r \in Rows |-> IF mask[r] THEN next_tokens[r] = eos_token_id ELSE reached[r]]

NoLogits == << >>

InitGen ==
    /\ model_max_length \in 1 .. MaxModelLen
    /\ \E len \in 1 .. MaxPrompt : input_ids = PromptBatch(len)
    /\ max_new_tokens \in 0 .. MaxNew
    /\ top_p \in TopPValues
    /\ rp \in RpValues
    /\ use_cache \in BOOLEAN
    /\ output = [r \in Rows |->
                   input_ids[r] \o [j \in 1 .. max_new_tokens |-> pad_token_id]]
    /\ active_mask = [r \in Rows |-> TRUE]
    /\ eos_reached = [r \in Rows |-> FALSE]
    /\ past_key_values = None
    /\ start_pos = 0
    /\ cur_pos = seq_length
    /\ logits_in = NoLogits
    /\ logits_rp = NoLogits
    /\ logits = NoLogits
    /\ pc = "loop"
    /\ passes = << >>
    /\ FwdIdle
    /\ CausalIdle
    /\ CfgIdle
    /\ ToppIdle
    /\ AttnIdle
    /\ SharedIdle

\* Lines 266-306 of one iteration: the forward pass and the logit transforms.
GenForward(kind) ==
    /\ pc = "loop"
    /\ cur_pos < max_seq_len
    /\ AnyActive(active_mask)
    /\ LET inputs == ModelInputs(output, cur_pos, past_key_values)
           pos == StartPos(cur_pos, past_key_values)
           out == BatchForward(inputs, past_key_values, use_cache, pos,
                               model_max_length)
       IN /\ start_pos' = pos
          /\ passes' = Append(passes, [kind |-> kind, len |-> Len(inputs[0]),
                                       start_pos |-> pos, cur_pos |-> cur_pos])
          /\ IF out.err # ""
             THEN /\ pc' = "error"
                  /\ UNCHANGED << past_key_values, logits_in, logits_rp, logits >>
             ELSE /\ pc' = "sample"
                  /\ past_key_values' = Some(out.past_key_values)
                  /\ \E lg \in [Rows -> LogitRows] :
                       LET penalised == ApplyRp(lg, output, cur_pos, active_mask, rp)
                       IN /\ logits_in' = lg
                          /\ logits_rp' = penalised
                          /\ logits' \in TopPBatch(penalised, top_p)
    /\ UNCHANGED << attn_vars, shared_vars, model_max_length, gen_args, output, active_mask, eos_reached,
                    cur_pos, fwd_vars, causal_vars, cfg_vars, topp_vars >>

\* PROMPT_PASS: the first pass, over all of output[:, :cur_pos].
GenPromptPass == past_key_values = None /\ GenForward("PROMPT_PASS")

\* DECODE_STEP: a later pass, over the last token only.
GenDecodeStep == past_key_values # None /\ GenForward("DECODE_STEP")

\* Lines 309-321: sample one token per row, write the active rows, update the
\* masks; leave the loop when no row is active.  The logits of this
\* iteration are dead afterwards (line 282 rebinds them).
GenSample ==
    /\ pc = "sample"
    /\ \E next_tokens \in [Rows -> Vocab] :
         /\ \A r \in Rows : logits[r][next_tokens[r]] # NegInf
         /\ output' = UpdateOutput(output, active_mask, cur_pos, next_tokens)
         /\ eos_reached' = UpdateEos(eos_reached, active_mask, next_tokens)
    /\ active_mask' = [r \in Rows |-> ~eos_reached'[r]]
    /\ IF AnyActive(active_mask')
       THEN pc' = "loop" /\ cur_pos' = cur_pos + 1
       ELSE pc' = "done" /\ cur_pos' = cur_pos
    /\ logits_in' = NoLogits
    /\ logits_rp' = NoLogits
    /\ logits' = NoLogits
    /\ UNCHANGED << attn_vars, shared_vars, model_max_length, gen_args, past_key_values, start_pos, passes,
                    fwd_vars, causal_vars, cfg_vars, topp_vars >>

\* The range of line 264 is exhausted (or line 266 breaks): return output.
GenReturn ==
    /\ pc = "loop"
    /\ cur_pos >= max_seq_len \/ ~AnyActive(active_mask)
    /\ pc' = "done"
    /\ UNCHANGED << attn_vars, shared_vars, model_max_length, gen_args, output, active_mask, eos_reached,
                    past_key_values, start_pos, cur_pos, logits_in, logits_rp,
                    logits, passes, fwd_vars, causal_vars, cfg_vars, topp_vars >>

NextGen == GenPromptPass \/ GenDecodeStep \/ GenSample \/ GenReturn

SpecGen == InitGen /\ [][NextGen]_vars

\* The head of the loop is left by a forward pass or by the return.
GenLeaveLoop == pc = "loop" /\ pc' \in {"sample", "done", "error"}

\* generate runs to its end: it is straight-line Python, no step of it waits
\* on anything.  At the loop head a pass or the return is always possible
\* (the guards of GenForward and GenReturn are complementary), so fairness
\* there is stated on the change of pc.
SpecGenLive == SpecGen /\ WF_pc(GenLeaveLoop) /\ WF_vars(GenSample)

(***************************************************************************)
(* Claims about generate.                                                  *)
(***************************************************************************)

\* The 1-based columns of the output buffer that hold generated tokens.
GeneratedColumns == seq_length + 1 .. max_seq_len

\* A row that holds the end token in a generated column is finished, and
\* every column after that one holds the pad token.
EosEndsRow ==
    \A r \in Rows : \A e \in GeneratedColumns :
        output[r][e] = eos_token_id =>
            /\ ~active_mask[r]
            /\ \A j \in GeneratedColumns : j > e => output[r][j] = pad_token_id

\* A step that writes the end token into an active row leaves it finished.
EosFinishesAtStep ==
    \A r \in Rows :
        (pc = "sample" /\ pc' # "sample" /\ active_mask[r]
            /\ output'[r][cur_pos + 1] = eos_token_id)
        => ~active_mask'[r]

\* A finished row stays finished and its output is not written again.
FinishedStays ==
    \A r \in Rows : ~active_mask[r] => (~active_mask'[r] /\ output'[r] = output[r])

\* C1: an active row that samples eos_token_id becomes finished at that step,
\* never becomes active again, and every output position after the one
\* holding its end token equals pad_token_id (in every state, so also when
\* generate returns), whatever the other rows go on to sample.
C1_EosRowStaysPadded ==
    /\ [](EosEndsRow)
    /\ [][EosFinishesAtStep /\ FinishedStays]_vars

\* generate has returned; row 0 sampled the end token at the first step and
\* row 1 went on to write a non-pad token at the second step.
C1_Witness ==
    /\ pc = "done"
    /\ max_new_tokens >= 2
    /\ output[0][seq_length + 1] = eos_token_id
    /\ output[1][seq_length + 1] # eos_token_id
    /\ output[1][seq_length + 2] # pad_token_id
    /\ output[0][seq_length + 2] = pad_token_id

\* The kinds of the passes made so far: one PROMPT_PASS first, when there is
\* any pass, and DECODE_STEPs after it.
PassOrder ==
    \A i \in 1 .. Len(passes) :
        passes[i].kind = (IF i = 1 THEN "PROMPT_PASS" ELSE "DECODE_STEP")

\* A forward pass is made only while some row is active and generate has
\* not ended.
PassOnlyWhileActive ==
    passes' # passes =>
        /\ \E r \in Rows : active_mask[r]
        /\ pc = "loop"

\* C2: generate terminates; it makes at most max_new_tokens forward passes,
\* none after the step at which no row is active any more, and the passes
\* are one PROMPT_PASS, then DECODE_STEPs, then DONE.
C2_Terminates ==
    /\ <>(pc \in {"done", "error"})
    /\ [](Len(passes) <= max_new_tokens)
    /\ [](PassOrder)
    /\ []((\A r \in Rows : ~active_mask[r]) => pc = "done")
    /\ [][PassOnlyWhileActive]_vars

\* generate returned early: both rows finished at the first pass, one pass
\* short of what max_new_tokens allowed.
C2_Witness ==
    /\ pc = "done"
    /\ Len(passes) = 1
    /\ max_new_tokens = 2
    /\ passes[1].kind = "PROMPT_PASS"
    /\ \A r \in Rows : ~active_mask[r]

\* The buffer keeps its width and its prompt columns, and the columns past
\* the current position hold the pad token.
BufferShape ==
    \A r \in Rows :
        /\ Len(output[r]) = seq_length + max_new_tokens
        /\ SubSeq(output[r], 1, seq_length) = input_ids[r]
        /\ \A j \in cur_pos + 2 .. Len(output[r]) : output[r][j] = pad_token_id

\* With max_new_tokens = 0 no pass runs and the buffer is the prompt.
ZeroNewTokens ==
    max_new_tokens = 0 => (passes = << >> /\ output = input_ids)

\* A step changes a column (1-based j) only if it is the column of the
\* current position, past the prompt, and the step is the sampling step.
WritesOnlyCurrent ==
    \A r \in Rows : \A j \in 1 .. Len(output[r]) :
        output'[r][j] # output[r][j] =>
            /\ j = cur_pos + 1
            /\ j > seq_length
            /\ pc = "sample"

\* C3: the output buffer has width prompt length + max_new_tokens in every
\* state; its prompt columns equal the prompt and no step writes them; a
\* later column is written only at the step whose current position it is,
\* and the columns past the current position hold pad_token_id; with
\* max_new_tokens = 0 no forward pass runs and the result is the prompt.
C3_OutputBufferFrame ==
    /\ [](BufferShape /\ ZeroNewTokens)
    /\ [][WritesOnlyCurrent]_vars

\* One token written in each row past the prompt, one pad column left.
C3_Witness ==
    /\ pc = "loop"
    /\ max_new_tokens = 2
    /\ cur_pos = seq_length + 1
    /\ \A r \in Rows : output[r][cur_pos] # pad_token_id
    /\ \A r \in Rows : output[r][cur_pos + 1] = pad_token_id

\* C7: when the prompt already reaches the maximum sequence length
\* (model_max_length), generate makes no forward pass and writes no token,
\* for any max_new_tokens.
C7_PromptAtMaxLength ==
    seq_length >= model_max_length =>
        /\ passes = << >>
        /\ \A r \in Rows :
              output[r] = input_ids[r] \o [j \in 1 .. max_new_tokens |-> pad_token_id]

\* The penalty as specified: in an active row, the logits of the tokens seen
\* in that row up to the current position, divided once by the penalty.
ExpectedRp(lg, outp, cur, mask, penalty) ==
    [r \in Rows |->
       [v \in Vocab |->
          IF mask[r] /\ v \in SeenTokens(outp[r], cur)
          THEN lg[r][v] \div penalty
          ELSE lg[r][v]]]

\* C10: at every step with a penalty other than 1, the logits after the
\* penalty are those before it with, for each active row, exactly the tokens
\* seen in that row scaled by 1/penalty; finished rows are left unchanged.
C10_RepetitionPenaltyPerRow ==
    (pc = "sample" /\ rp # 1) =>
        logits_rp = ExpectedRp(logits_in, output, cur_pos, active_mask, rp)

\* Every layer's cache, of every row, holds keys and values of exactly the
\* positions 0 .. n - 1, in order (key j rotated with table row j).
CacheHolds(n) ==
    \A r \in Rows : \A l \in 1 .. n_layers :
        LET e == past_key_values[1][r][l]
        IN /\ e # None
           /\ Len(e[1][1]) = n
           /\ Len(e[1][2]) = n
           /\ \A j \in 1 .. n : e[1][1][j].rot = j - 1

\* C11: for either value of use_cache, every pass after the first runs over
\* the single token of column cur_pos - 1 with the prior cache supplied and
\* start position equal to the cache's length: before the pass each layer's
\* cache holds positions 0 .. cur_pos - 2, after it positions 0 .. cur_pos - 1.
C11_DecodeStepCache ==
    past_key_values # None =>
        /\ pc = "loop" => CacheHolds(cur_pos - 1)
        /\ pc = "sample" =>
              /\ CacheHolds(cur_pos)
              /\ Len(passes) >= 2 =>
                    /\ passes[Len(passes)].len = 1
                    /\ start_pos = cur_pos - 1

(***************************************************************************)
(* C12.  One call of Attention.forward with a prior cache of c positions   *)
(* and s new tokens, as the layers of forward make it at start_pos = c.    *)
(***************************************************************************)

\* The hidden states of the tokens ids[from .. to] entering the first layer.
HiddenOf(ids, from, to) == [i \in 1 .. to - from + 1 |-> [tok |-> ids[from + i - 1]]]

\* The cache an earlier pass over the first c tokens left (lines 119-124):
\* their keys, rotated with table rows 0 .. c - 1, and their values.
PriorCache(ids, c) ==
    IF c = 0 THEN None
    ELSE LET x == HiddenOf(ids, 1, c)
         IN Some(<< apply_rotary_emb(x, PosCisSlice(0, c)),
                    [i \in 1 .. c |-> [src |-> x[i]]] >>)

InitAttn ==
    /\ model_max_length \in 1 .. MaxModelLen
    /\ \E ids \in TokenSeqs(MaxAttnLen) :
         \E c \in 0 .. Len(ids) - 1 :
           attn_in = [ids |-> ids, c |-> c]
    /\ attn_out = None
    /\ SharedIdle
    /\ FwdIdle
    /\ CausalIdle
    /\ CfgIdle
    /\ ToppIdle
    /\ GenIdle

AttentionCall ==
    /\ attn_out = None
    /\ LET c == attn_in.c
           s == Len(attn_in.ids) - c
       IN attn_out' = Some(AttentionForward(HiddenOf(attn_in.ids, c + 1, c + s),
                                            PosCisSlice(c, s),
                                            PriorCache(attn_in.ids, c),
                                            TRUE, model_max_length))
    /\ UNCHANGED << model_max_length, attn_in, shared_vars, fwd_vars, causal_vars,
                    cfg_vars, topp_vars, gen_vars >>

NextAttn == AttentionCall

SpecAttn == InitAttn /\ [][NextAttn]_vars

\* The key and the value of absolute position j (1-based) of the sequence.
KeyValueAt(ids, j) ==
    << [src |-> [tok |-> ids[j]], rot |-> j - 1], [src |-> [tok |-> ids[j]]] >>

\* C12: for a call with a prior cache of length c >= 0 and s >= 1 new tokens,
\* within the extent of the mask, the query of the new token at absolute
\* position c + i receives exactly the keys of absolute positions 0 .. c + i:
\* none later, and every earlier one.
C12_MaskAlignedWithCache ==
    (attn_out # None /\ Len(attn_in.ids) <= model_max_length) =>
        LET c == attn_in.c
            s == Len(attn_in.ids) - c
        IN /\ attn_out[1].err = ""
           /\ \A i \in 1 .. s :
                 attn_out[1].out[i].kv
                     = [j \in 1 .. c + i |-> KeyValueAt(attn_in.ids, j)]

(***************************************************************************)
(* C13.  Which tokens top-p keeps.                                         *)
(***************************************************************************)

RECURSIVE SetWeight(_, _)
\* The softmax weight of a set of tokens of a row.
SetWeight(row, S) ==
    IF S = {} THEN 0
    ELSE LET v == CHOOSE x \in S : TRUE
         IN Weight(row[v]) + SetWeight(row, S \ {v})

\* The probability of the set S of tokens exceeds top_p = p[1] / p[2].
ProbExceeds(row, S, p) == SetWeight(row, S) * p[2] > p[1] * SetWeight(row, Vocab)

\* The tokens of sorted ranks 1 .. k.
RankPrefix(order, k) == {order[r] : r \in 1 .. k}

\* C13: for top_p < 1, the token of (0-based) sorted rank k >= 1 is set to
\* -inf iff the cumulative probability of ranks 0 .. k-1 exceeds top_p, and
\* rank 0 never is; the tokens kept are exactly the smallest prefix of the
\* sorted order whose cumulative probability exceeds top_p, boundary token
\* included; kept tokens keep their logit at their own token index.  For
\* top_p = 1 the row is unchanged.
C13_TopPBoundaryRetention ==
    topp_out # None =>
        LET row == topp_in.row
            order == topp_in.order
            p == topp_in.top_p
            out == topp_out[1]
            Kept == {v \in Vocab : out[v] # NegInf}
            n == Cardinality(Kept)
        IN IF p[1] < p[2]
           THEN /\ \A k \in 1 .. Cardinality(Vocab) :
                     (out[order[k]] = NegInf)
                         <=> (k >= 2 /\ ProbExceeds(row, RankPrefix(order, k - 1), p))
                /\ \A v \in Kept : out[v] = row[v]
                /\ Kept = RankPrefix(order, n)
                /\ ProbExceeds(row, Kept, p)
                /\ \A m \in 1 .. n - 1 : ~ProbExceeds(row, RankPrefix(order, m), p)
           ELSE out = row

\* The threshold is crossed at the second-ranked token, which is kept; the
\* third is removed; the sort order is not the order of the token indices.
C13_Witness ==
    /\ topp_out # None
    /\ topp_in.top_p[1] < topp_in.top_p[2]
    /\ topp_in.order[1] # pad_token_id
    /\ ~ProbExceeds(topp_in.row, RankPrefix(topp_in.order, 1), topp_in.top_p)
    /\ ProbExceeds(topp_in.row, RankPrefix(topp_in.order, 2), topp_in.top_p)
    /\ topp_out[1][topp_in.order[2]] = topp_in.row[topp_in.order[2]]
    /\ topp_out[1][topp_in.order[3]] = NegInf

(***************************************************************************)
(* C14.  Two calls of generate on one model, interleaved statement by      *)
(* statement.  Each call has its own output buffer (one row) and its own   *)
(* past_key_values; forward fills the model's one self.OUT (lines 221-222) *)
(* and returns it, and the caller reads its fields (lines 282-283).        *)
(***************************************************************************)
Calls == {"A", "B"}

\* self.OUT = CausalLMOutputWithPast(): no field set yet.
EmptyOut == [logits |-> NoLogits, past_key_values |-> None]

InitShared ==
    /\ model_max_length \in 1 .. MaxModelLen
    /\ OUT = EmptyOut
    /\ call_pc = [c \in Calls |-> "forward"]
    /\ call_ids \in [Calls -> TokenSeqs(MaxSharedPrompt)]
    /\ call_past = [c \in Calls |-> None]
    /\ call_logits = [c \in Calls |-> NoLogits]
    /\ call_own = [c \in Calls |-> EmptyOut]
    /\ AttnIdle
    /\ FwdIdle
    /\ CausalIdle
    /\ CfgIdle
    /\ ToppIdle
    /\ GenIdle

\* Lines 270-280 and 212-221: the call runs the layers on its own inputs and
\* its own cache, and forward stores the logits in self.OUT.
CallForward(c) ==
    /\ call_pc[c] = "forward"
    /\ LET ids == call_ids[c]
           inputs == IF call_past[c] = None THEN ids ELSE << ids[Len(ids)] >>
           pos == IF call_past[c] = None THEN 0 ELSE Len(ids) - 1
           res == forward(inputs, call_past[c], TRUE, pos, model_max_length)
       IN IF res.err # ""
          THEN /\ call_pc' = [call_pc EXCEPT ![c] = "error"]
               /\ UNCHANGED << OUT, call_own >>
          ELSE /\ call_pc' = [call_pc EXCEPT ![c] = "set_cache"]
               /\ call_own' = [call_own EXCEPT ![c] =
                                 [logits |-> res.logits,
                                  past_key_values |-> Some(res.past_key_values)]]
               /\ OUT' = [OUT EXCEPT !.logits = res.logits]
    /\ UNCHANGED << model_max_length, call_ids, call_past, call_logits, attn_vars,
                    fwd_vars, causal_vars, cfg_vars, topp_vars, gen_vars >>

\* Lines 222-223: forward stores its past_kvs in self.OUT and returns self.OUT.
CallSetCache(c) ==
    /\ call_pc[c] = "set_cache"
    /\ OUT' = [OUT EXCEPT !.past_key_values = call_own[c].past_key_values]
    /\ call_pc' = [call_pc EXCEPT ![c] = "read_logits"]
    /\ UNCHANGED << model_max_length, call_ids, call_past, call_logits, call_own,
                    attn_vars, fwd_vars, causal_vars, cfg_vars, topp_vars, gen_vars >>

\* Line 282: logits = out.logits[:, -1, :], out being self.OUT.
CallReadLogits(c) ==
    /\ call_pc[c] = "read_logits"
    /\ call_logits' = [call_logits EXCEPT ![c] = OUT.logits[Len(OUT.logits)]]
    /\ call_pc' = [call_pc EXCEPT ![c] = "read_cache"]
    /\ UNCHANGED << model_max_length, OUT, call_ids, call_past, call_own,
                    attn_vars, fwd_vars, causal_vars, cfg_vars, topp_vars, gen_vars >>

\* Line 283: past_key_values = out.past_key_values; then lines 309-313 write
\* the sampled token into the call's own buffer, and the loop ends when the
\* buffer (of MaxSharedWidth columns) is full.
CallReadCache(c) ==
    /\ call_pc[c] = "read_cache"
    /\ call_past' = [call_past EXCEPT ![c] = OUT.past_key_values]
    /\ \E tok \in Vocab : call_ids' = [call_ids EXCEPT ![c] = Append(@, tok)]
    /\ call_pc' = [call_pc EXCEPT ![c] =
                     IF Len(call_ids[c]) + 1 >= MaxSharedWidth
                     THEN "done" ELSE "forward"]
    /\ UNCHANGED << model_max_length, OUT, call_logits, call_own,
                    attn_vars, fwd_vars, causal_vars, cfg_vars, topp_vars, gen_vars >>

NextShared ==
    \E c \in Calls :
        CallForward(c) \/ CallSetCache(c) \/ CallReadLogits(c) \/ CallReadCache(c)

SpecShared == InitShared /\ [][NextShared]_vars

\* C14: the object a forward call returned still holds that call's logits
\* and cache when its caller reads it, whatever forward calls the other
\* generate call makes meanwhile; so each call reads its own pass's results.
C14_NoSharedOutput ==
    \A c \in Calls :
        /\ call_pc[c] = "read_logits" => OUT = call_own[c]
        /\ call_pc[c] = "read_cache" =>
              /\ OUT.past_key_values = call_own[c].past_key_values
              /\ call_logits[c] = call_own[c].logits[Len(call_own[c].logits)]
        /\ (call_pc[c] \in {"forward", "done"} /\ call_past[c] # None) =>
              call_past[c] = call_own[c].past_key_values

=============================================================================
